---- MODULE Spec2Model ----
(***************************************************************************)
(* State-machine model of the CustomBorders plugin                         *)
(* (src/plugins/customBorders/customBorders.js).                           *)
(*                                                                         *)
(* The Metadata Store is the partial map `meta` from cells to the object   *)
(* stored under the key `borders`; the Overlay Registry is the sequence    *)
(* `selections` (hot.view.wt.selections, restricted to the entries the     *)
(* plugin pushed); the render tree is abstracted to the class names that   *)
(* currently tag a decoration node (`decor`) or a table cell (`td`).       *)
(*                                                                         *)
(* JavaScript objects are references: the object stored in the cell meta   *)
(* is the very object held by the Selection created from it.  An overlay   *)
(* entry carries `alias = TRUE` while its settings object is the object    *)
(* currently stored in the cell meta, so that the in-place write of        *)
(* setBorder shows through every entry that shares the object.             *)
(***************************************************************************)
EXTENDS Integers, Sequences, FiniteSets, TLC

VARIABLES customBorders, savedSettings, enabled, hooks, meta, selections,
          decor, td, trace, lastOp, steps,
          language, errors, hookLog, menu

\* the host grid's language state and the context menu built last
hostVars == <<language, errors, hookLog, menu>>

vars == <<customBorders, savedSettings, enabled, hooks, meta, selections,
          decor, td, trace, lastOp, steps, language, errors, hookLog, menu>>

(***************************************************************************)
(* Bounds                                                                  *)
(***************************************************************************)
\* the grid has N rows and N columns
N == 3
\* number of operations in one behaviour
MaxSteps == 3
\* number of operations in one behaviour of the lifecycle specification
MaxLifeSteps == 4
\* number of operations in one behaviour of the language specification
MaxLangSteps == 4
MaxMenuSteps == 3
\* cap on the length of the overlay list
MaxOverlay == 20

Rows == 0 .. (N - 1)
Cols == 0 .. (N - 1)
Cells == Rows \X Cols
Sides == {"top", "right", "bottom", "left"}

(***************************************************************************)
(* helpers/number.js                                                       *)
(***************************************************************************)
\* the indices rangeEach(rangeFrom, rangeTo, ...) visits, in order
rangeEach(rangeFrom, rangeTo) ==
  [i \in 1 .. (IF rangeTo >= rangeFrom THEN rangeTo - rangeFrom + 1 ELSE 0)
     |-> rangeFrom + i - 1]

(***************************************************************************)
(* customBorders/utils.js                                                  *)
(***************************************************************************)
createClassName(row, col) == <<"border_row", row, "col", col>>

createSingleEmptyBorder == [hide |-> TRUE]

createDefaultCustomBorder == [width |-> 1, color |-> "#000"]

createDefaultHtBorder == [width |-> 1, color |-> "#000", cornerVisible |-> FALSE]

createEmptyBorders(row, col) ==
  [className |-> createClassName(row, col),
   border    |-> createDefaultHtBorder,
   row       |-> row,
   col       |-> col,
   top       |-> createSingleEmptyBorder,
   right     |-> createSingleEmptyBorder,
   bottom    |-> createSingleEmptyBorder,
   left      |-> createSingleEmptyBorder]

\* every side (and the `border` field) the entry owns overwrites the default
extendDefaultBorder(defaultBorder, customBorder) ==
  [k \in DOMAIN defaultBorder |->
     IF k \in (Sides \cup {"border"}) /\ k \in DOMAIN customBorder
       THEN customBorder[k]
       ELSE defaultBorder[k]]

hasOwnProperty(object, key) == key \in DOMAIN object

(***************************************************************************)
(* Inputs                                                                  *)
(***************************************************************************)
Red2 == [width |-> 2, color |-> "red"]
Green1 == [width |-> 1, color |-> "green"]

RangeOf(r0, c0, r1, c1) ==
  [from |-> [row |-> r0, col |-> c0], to |-> [row |-> r1, col |-> c1]]

\* point entries
PLeft11 == [row |-> 1, col |-> 1, left |-> Red2]
PTop11 == [row |-> 1, col |-> 1, top |-> Green1]
PTop00 == [row |-> 0, col |-> 0, top |-> Red2, right |-> Green1]
\* range entries
RBottom == [range |-> RangeOf(0, 0, 1, 1), bottom |-> Red2]
RTop == [range |-> RangeOf(0, 0, 2, 2), top |-> Green1]
RTopLeft == [range |-> RangeOf(0, 0, 2, 2), top |-> Red2, left |-> Green1]

\* the list configurations the setting is drawn from
ConfigLists ==
  { <<>>, <<PLeft11>>, <<PTop11>>, <<PTop00, PLeft11>>,
    <<RBottom>>, <<RTop>>, <<RTopLeft>> }

Undefined == [kind |-> "undefined", list |-> <<>>]
Sentinel == [kind |-> "true", list |-> <<>>]
ListOf(l) == [kind |-> "list", list |-> l]

\* values of the `customBorders` setting: absent, `true`, or a list
SettingValues == {Undefined, Sentinel} \cup {ListOf(l) : l \in ConfigLists}

\* JavaScript truthiness of a setting value (an empty array is truthy)
Truthy(v) == v.kind # "undefined"

ActionRanges == {RangeOf(1, 1, 1, 1), RangeOf(0, 0, 1, 1), RangeOf(0, 0, 2, 2)}
Places == Sides \cup {"noBorders"}

(***************************************************************************)
(* The host grid's `language` setting (i18n), as the e2e suite              *)
(* test/e2e/i18n/index.spec.js describes it                                *)
(***************************************************************************)
LanguageCode(lang, region) == [lang |-> lang, region |-> region]

DEFAULT_LANGUAGE_CODE == LanguageCode("en", "US")
POLISH_LANGUAGE_CODE == LanguageCode("pl", "PL")
NOT_EXISTING_LANGUAGE_CODE == LanguageCode("bs", "GY")

\* the language codes with a registered dictionary
RegisteredLanguages == {DEFAULT_LANGUAGE_CODE, POLISH_LANGUAGE_CODE}

\* String.prototype.toUpperCase / toLowerCase on the region parts in use
toUpperCase(part) ==
  CASE part = "us" -> "US"
    [] part = "pl" -> "PL"
    [] part = "gy" -> "GY"
    [] OTHER -> part

toLowerCase(part) ==
  CASE part = "US" -> "us"
    [] part = "PL" -> "pl"
    [] part = "GY" -> "gy"
    [] OTHER -> part

\* the second part of a language code is cast to upper case
normalizeLanguageCode(code) == LanguageCode(code.lang, toUpperCase(code.region))

\* the `language` values handed to the grid; << >> stands for "no such key"
GivenLanguages ==
  { << >>,
    <<DEFAULT_LANGUAGE_CODE>>,
    <<POLISH_LANGUAGE_CODE>>,
    <<LanguageCode("pl", toLowerCase("PL"))>>,
    <<NOT_EXISTING_LANGUAGE_CODE>> }

HostAtStart == [language |-> DEFAULT_LANGUAGE_CODE, errors |-> 0, hookLog |-> << >>]

\* setLanguage with the hook called after the setting has been written
setLanguageHookAfterWrite(H, code, atStart) ==
  LET normalized == normalizeLanguageCode(code)
  IN  IF normalized \in RegisteredLanguages
        THEN [H EXCEPT !.language = normalized,
                       !.hookLog = IF atStart THEN H.hookLog
                                   ELSE Append(H.hookLog, normalized)]
        ELSE [H EXCEPT !.errors = H.errors + 1]

\* setLanguage that stores the code as it was given
setLanguageStoresGiven(H, code, atStart) ==
  IF normalizeLanguageCode(code) \in RegisteredLanguages
    THEN [H EXCEPT !.language = code,
                   !.hookLog = IF atStart THEN H.hookLog
                               ELSE Append(H.hookLog, H.language)]
    ELSE [H EXCEPT !.errors = H.errors + 1]

\* a `language` key handed to the grid: a registered code is stored in its
\* normalized form, after the `afterLanguageChange` hook ran (not at start);
\* an unregistered one is logged with console.error and changes nothing
setLanguage(H, code, atStart) ==
  LET normalized == normalizeLanguageCode(code)
  IN  IF normalized \in RegisteredLanguages
        THEN [H EXCEPT !.language = normalized,
                       !.hookLog = IF atStart THEN H.hookLog
                                   ELSE Append(H.hookLog, H.language)]
        ELSE [H EXCEPT !.errors = H.errors + 1]

(***************************************************************************)
(* The engine state threaded through one handler                           *)
(***************************************************************************)
Here ==
  [meta |-> meta, selections |-> selections, decor |-> decor, td |-> td,
   trace |-> <<>>, savedSettings |-> savedSettings]

Event(ev, cell) == [ev |-> ev, cell |-> cell]

CellOf(border) == <<border.row, border.col>>

\* hot.setCellMeta(row, col, 'borders', border) with a newly created object:
\* overlay entries built from the object stored before keep that object
setCellMeta(S, cell, border) ==
  [S EXCEPT
     !.meta = (cell :> border) @@ S.meta,
     !.selections =
        [i \in 1 .. Len(S.selections) |->
           IF S.selections[i].alias /\ CellOf(S.selections[i].settings) = cell
             THEN [S.selections[i] EXCEPT !.alias = FALSE]
             ELSE S.selections[i]],
     !.trace = Append(S.trace, Event("setCellMeta", cell))]

\* hot.removeCellMeta(row, col, 'borders')
removeCellMeta(S, cell) ==
  [S EXCEPT
     !.meta = [x \in (DOMAIN S.meta) \ {cell} |-> S.meta[x]],
     !.selections =
        [i \in 1 .. Len(S.selections) |->
           IF S.selections[i].alias /\ CellOf(S.selections[i].settings) = cell
             THEN [S.selections[i] EXCEPT !.alias = FALSE]
             ELSE S.selections[i]],
     !.trace = Append(S.trace, Event("removeCellMeta", cell))]

\* hot.render(): every overlay of the registry is drawn under its class name
render(S) ==
  LET drawn == {S.selections[i].settings.className : i \in 1 .. Len(S.selections)}
  IN  [S EXCEPT !.decor = S.decor \cup drawn,
                !.td = S.td \cup drawn,
                !.trace = Append(S.trace, Event("render", <<>>))]

\* hot.view.wt.draw(true)
draw(S) ==
  LET drawn == {S.selections[i].settings.className : i \in 1 .. Len(S.selections)}
  IN  [S EXCEPT !.decor = S.decor \cup drawn,
                !.td = S.td \cup drawn,
                !.trace = Append(S.trace, Event("draw", <<>>))]

(***************************************************************************)
(* CustomBorders                                                           *)
(***************************************************************************)
\* the value returned inside the rangeEach callback is discarded: the method
\* always falls through to `return -1`
getSettingIndex(sels, className) == -1

\* insertBorderIntoSettings that builds the cell range with row and column
\* exchanged
insertBorderIntoSettingsTransposed(S, border) ==
  LET coordinates == [row |-> border.col, col |-> border.row]
      selection == [settings |-> border,
                    cellRange |-> [highlight |-> coordinates,
                                   from |-> coordinates,
                                   to |-> coordinates],
                    alias |-> TRUE]
      index == getSettingIndex(S.selections, border.className)
  IN  IF index >= 0
        THEN [S EXCEPT !.selections[index + 1] = selection]
        ELSE [S EXCEPT !.selections = Append(S.selections, selection)]

insertBorderIntoSettings(S, border) ==
  LET coordinates == [row |-> border.row, col |-> border.col]
      selection == [settings |-> border,
                    cellRange |-> [highlight |-> coordinates,
                                   from |-> coordinates,
                                   to |-> coordinates],
                    alias |-> TRUE]
      index == getSettingIndex(S.selections, border.className)
  IN  IF index >= 0
        THEN [S EXCEPT !.selections[index + 1] = selection]
        ELSE [S EXCEPT !.selections = Append(S.selections, selection)]

\* prepareBorderFromCustomAdded that stores the descriptor and forgets the
\* overlay
prepareBorderFromCustomAddedNoOverlay(S, row, col, borderObj) ==
  setCellMeta(S, <<row, col>>,
              extendDefaultBorder(createEmptyBorders(row, col), borderObj))

prepareBorderFromCustomAdded(S, row, col, borderObj) ==
  LET border == extendDefaultBorder(createEmptyBorders(row, col), borderObj)
  IN  insertBorderIntoSettings(setCellMeta(S, <<row, col>>, border), border)

\* the callback without the boundary tests: every named side on every cell
prepareRangeCellNoEdgeTest(S, rowObj, rowIndex, colIndex) ==
  LET border == extendDefaultBorder(createEmptyBorders(rowIndex, colIndex), rowObj)
  IN  insertBorderIntoSettings(
        setCellMeta(S, <<rowIndex, colIndex>>, border), border)

\* the body of the two nested rangeEach callbacks, for one cell
prepareRangeCell(S, rowObj, rowIndex, colIndex) ==
  LET range == rowObj.range
      b0 == createEmptyBorders(rowIndex, colIndex)
      onTop == rowIndex = range.from.row
      onBottom == rowIndex = range.to.row
      onLeft == colIndex = range.from.col
      onRight == colIndex = range.to.col
      b1 == IF onTop /\ hasOwnProperty(rowObj, "top")
              THEN [b0 EXCEPT !.top = rowObj.top] ELSE b0
      b2 == IF onBottom /\ hasOwnProperty(rowObj, "bottom")
              THEN [b1 EXCEPT !.bottom = rowObj.bottom] ELSE b1
      b3 == IF onLeft /\ hasOwnProperty(rowObj, "left")
              THEN [b2 EXCEPT !.left = rowObj.left] ELSE b2
      border == IF onRight /\ hasOwnProperty(rowObj, "right")
                  THEN [b3 EXCEPT !.right = rowObj.right] ELSE b3
      add == (IF onTop THEN 1 ELSE 0) + (IF onBottom THEN 1 ELSE 0)
             + (IF onLeft THEN 1 ELSE 0) + (IF onRight THEN 1 ELSE 0)
  IN  IF add > 0
        THEN insertBorderIntoSettings(
               setCellMeta(S, <<rowIndex, colIndex>>, border), border)
        ELSE S

\* the cells of a range, rows in the outer loop and columns in the inner one
RowMajor(range) ==
  LET rs == rangeEach(range.from.row, range.to.row)
      cs == rangeEach(range.from.col, range.to.col)
  IN  [k \in 1 .. (Len(rs) * Len(cs)) |->
         <<rs[((k - 1) \div Len(cs)) + 1], cs[((k - 1) % Len(cs)) + 1]>>]

\* the cells of a range, columns in the outer loop and rows in the inner one
ColMajor(range) ==
  LET rs == rangeEach(range.from.row, range.to.row)
      cs == rangeEach(range.from.col, range.to.col)
  IN  [k \in 1 .. (Len(rs) * Len(cs)) |->
         <<rs[((k - 1) % Len(rs)) + 1], cs[((k - 1) \div Len(rs)) + 1]>>]

RECURSIVE RangeLoop(_, _, _, _)
RangeLoop(S, rowObj, cells, k) ==
  IF k > Len(cells) THEN S
  ELSE RangeLoop(prepareRangeCell(S, rowObj, cells[k][1], cells[k][2]),
                 rowObj, cells, k + 1)

prepareBorderFromCustomAddedRange(S, rowObj) ==
  RangeLoop(S, rowObj, RowMajor(rowObj.range), 1)

\* removeBordersFromDom that detaches every node tagged with the class, the
\* table cell included
removeBordersFromDomWithCells(S, borderClassName) ==
  [S EXCEPT !.decor = S.decor \ {borderClassName},
            !.td = S.td \ {borderClassName},
            !.trace = Append(S.trace, Event("removeBordersFromDom", borderClassName))]

\* the parent of every non-TD node tagged with the class leaves the tree; TD
\* nodes are skipped
removeBordersFromDom(S, borderClassName) ==
  [S EXCEPT !.decor = S.decor \ {borderClassName},
            !.trace = Append(S.trace, Event("removeBordersFromDom", borderClassName))]

\* removeAllBorders that stores an all-hidden descriptor instead of removing
removeAllBordersStoresEmpty(S, row, col) ==
  setCellMeta(removeBordersFromDom(S, createClassName(row, col)), <<row, col>>,
              createEmptyBorders(row, col))

removeAllBorders(S, row, col) ==
  removeCellMeta(removeBordersFromDom(S, createClassName(row, col)), <<row, col>>)

\* setBorder that never reads the stored descriptor
setBorderMetaFromEmpty(m, row, col, place, remove) ==
  IF remove
    THEN (place :> createSingleEmptyBorder) @@ createEmptyBorders(row, col)
    ELSE (place :> createDefaultCustomBorder) @@ createEmptyBorders(row, col)

\* setBorder, the descriptor it computes: the stored object when there is a
\* well-formed one, else a new empty descriptor; then the side is assigned
setBorderMeta(m, row, col, place, remove) ==
  LET cell == <<row, col>>
      bordersMeta == IF cell \notin DOMAIN m \/ ~hasOwnProperty(m[cell], "border")
                       THEN createEmptyBorders(row, col)
                       ELSE m[cell]
  IN  IF remove
        THEN (place :> createSingleEmptyBorder) @@ bordersMeta
        ELSE (place :> createDefaultCustomBorder) @@ bordersMeta

\* setBorder that reuses whatever object is stored for the cell
setBorderTrustsStored(S, row, col, place, remove) ==
  LET cell == <<row, col>>
      fresh == cell \notin DOMAIN S.meta
      style == IF remove THEN createSingleEmptyBorder ELSE createDefaultCustomBorder
      bordersMeta == (place :> style)
                       @@ (IF fresh THEN createEmptyBorders(row, col) ELSE S.meta[cell])
      \* the write goes into the stored object itself when one is reused
      S1 == IF fresh
              THEN setCellMeta(S, cell, bordersMeta)
              ELSE [S EXCEPT
                      !.meta = (cell :> bordersMeta) @@ S.meta,
                      !.selections =
                         [i \in 1 .. Len(S.selections) |->
                            IF S.selections[i].alias
                               /\ CellOf(S.selections[i].settings) = cell
                              THEN [S.selections[i] EXCEPT !.settings = bordersMeta]
                              ELSE S.selections[i]],
                      !.trace = Append(S.trace, Event("setCellMeta", cell))]
      S2 == removeBordersFromDom(S1, createClassName(row, col))
  IN  render(insertBorderIntoSettings(S2, bordersMeta))

\* setBorder(row, col, place, remove)
setBorder(S, row, col, place, remove) ==
  LET cell == <<row, col>>
      fresh == cell \notin DOMAIN S.meta \/ ~hasOwnProperty(S.meta[cell], "border")
      bordersMeta == setBorderMeta(S.meta, row, col, place, remove)
      \* the write goes into the stored object itself when one is reused
      S1 == IF fresh
              THEN setCellMeta(S, cell, bordersMeta)
              ELSE [S EXCEPT
                      !.meta = (cell :> bordersMeta) @@ S.meta,
                      !.selections =
                         [i \in 1 .. Len(S.selections) |->
                            IF S.selections[i].alias
                               /\ CellOf(S.selections[i].settings) = cell
                              THEN [S.selections[i] EXCEPT !.settings = bordersMeta]
                              ELSE S.selections[i]],
                      !.trace = Append(S.trace, Event("setCellMeta", cell))]
      S2 == removeBordersFromDom(S1, createClassName(row, col))
  IN  render(insertBorderIntoSettings(S2, bordersMeta))

RECURSIVE RemoveLoop(_, _, _)
RemoveLoop(S, cells, k) ==
  IF k > Len(cells) THEN S
  ELSE RemoveLoop(removeAllBorders(S, cells[k][1], cells[k][2]), cells, k + 1)

RECURSIVE SetLoop(_, _, _, _, _)
SetLoop(S, cells, k, place, remove) ==
  IF k > Len(cells) THEN S
  ELSE SetLoop(setBorder(S, cells[k][1], cells[k][2], place, remove),
               cells, k + 1, place, remove)

\* AlongRow that walks every row of the range instead of the one given
AlongRowWholeRange(row, range) == RowMajor(range)

\* the cells rangeEach(from, to, ...) passes to setBorder along one line
AlongRow(row, range) ==
  LET cs == rangeEach(range.from.col, range.to.col)
  IN  [k \in 1 .. Len(cs) |-> <<row, cs[k]>>]

AlongCol(col, range) ==
  LET rs == rangeEach(range.from.row, range.to.row)
  IN  [k \in 1 .. Len(rs) |-> <<rs[k], col>>]

\* prepareBorder that hands `remove` to setBorder for every side
prepareBorderForwardsRemove(S, range, place, remove) ==
  IF range.from.row = range.to.row /\ range.from.col = range.to.col
    THEN IF place = "noBorders"
           THEN removeAllBorders(S, range.from.row, range.from.col)
           ELSE setBorder(S, range.from.row, range.from.col, place, remove)
    ELSE CASE place = "noBorders" -> RemoveLoop(S, ColMajor(range), 1)
           [] place = "top" ->
                SetLoop(S, AlongRow(range.from.row, range), 1, place, remove)
           [] place = "right" ->
                SetLoop(S, AlongCol(range.to.col, range), 1, place, remove)
           [] place = "bottom" ->
                SetLoop(S, AlongRow(range.to.row, range), 1, place, remove)
           [] place = "left" ->
                SetLoop(S, AlongCol(range.from.col, range), 1, place, remove)
           [] OTHER -> S

\* prepareBorder(range, place, remove); the calls for right, bottom and left
\* pass no `remove` argument, which setBorder reads as falsy
prepareBorder(S, range, place, remove) ==
  IF range.from.row = range.to.row /\ range.from.col = range.to.col
    THEN IF place = "noBorders"
           THEN removeAllBorders(S, range.from.row, range.from.col)
           ELSE setBorder(S, range.from.row, range.from.col, place, remove)
    ELSE CASE place = "noBorders" -> RemoveLoop(S, ColMajor(range), 1)
           [] place = "top" ->
                SetLoop(S, AlongRow(range.from.row, range), 1, place, remove)
           [] place = "right" ->
                SetLoop(S, AlongCol(range.to.col, range), 1, place, FALSE)
           [] place = "bottom" ->
                SetLoop(S, AlongRow(range.to.row, range), 1, place, FALSE)
           [] place = "left" ->
                SetLoop(S, AlongCol(range.from.col, range), 1, place, FALSE)
           [] OTHER -> S

RECURSIVE ConfigLoop(_, _, _)
ConfigLoop(S, list, index) ==
  IF index > Len(list) THEN S
  ELSE ConfigLoop(
         IF hasOwnProperty(list[index], "range")
           THEN prepareBorderFromCustomAddedRange(S, list[index])
           ELSE prepareBorderFromCustomAdded(S, list[index].row,
                                             list[index].col, list[index]),
         list, index + 1)

\* createCustomBorders whose loop runs once for a value without a length,
\* drawing a default top border on the first cell
createCustomBordersLoopsOnSentinel(S, borders) ==
  draw(render(ConfigLoop(S, IF borders.kind = "list" THEN borders.list
                            ELSE <<[row |-> 0, col |-> 0,
                                    top |-> createDefaultCustomBorder]>>, 1)))

\* a non-list argument has no length: the loop body never runs
createCustomBorders(S, borders) ==
  draw(render(ConfigLoop(S, IF borders.kind = "list" THEN borders.list ELSE <<>>, 1)))

\* setsBordersSettings that remembers a list only when it has entries
setsBordersSettingsSkipsEmpty(S, setting) ==
  LET S1 == [S EXCEPT !.decor = S.decor \ S.td]
  IN  IF Truthy(setting)
        THEN IF setting.kind = "list"
               THEN createCustomBorders(
                      IF setting.list # << >>
                        THEN [S1 EXCEPT !.savedSettings = setting] ELSE S1,
                      setting)
               ELSE createCustomBorders(
                      S1, IF Truthy(S1.savedSettings) THEN S1.savedSettings ELSE setting)
        ELSE S1

\* setsBordersSettings that passes the live value on without looking at
\* savedSettings
setsBordersSettingsIgnoresSaved(S, setting) ==
  LET S1 == [S EXCEPT !.decor = S.decor \ S.td]
  IN  IF Truthy(setting)
        THEN IF setting.kind = "list"
               THEN createCustomBorders([S1 EXCEPT !.savedSettings = setting], setting)
               ELSE createCustomBorders(S1, setting)
        ELSE S1

setsBordersSettings(S, setting) ==
  LET S1 == [S EXCEPT !.decor = S.decor \ S.td]
  IN  IF Truthy(setting)
        THEN IF setting.kind = "list"
               THEN createCustomBorders([S1 EXCEPT !.savedSettings = setting], setting)
               ELSE createCustomBorders(
                      S1, IF Truthy(S1.savedSettings) THEN S1.savedSettings ELSE setting)
        ELSE S1

\* addBordersOptionsToContextMenu(defaultOptions), on the list of items
addBordersOptionsToContextMenu(items, setting) ==
  IF ~Truthy(setting)
    THEN items
    ELSE items \o << [name |-> "---------"],
                     [key |-> "borders",
                      name |-> "Borders",
                      submenu |-> <<"top", "right", "bottom", "left", "noBorders">>] >>

\* the callbacks registered for `afterContextMenuDefaultOptions` run in turn
RECURSIVE RunMenuHooks(_, _, _)
RunMenuHooks(items, setting, count) ==
  IF count = 0 THEN items
  ELSE RunMenuHooks(addBordersOptionsToContextMenu(items, setting), setting, count - 1)

(***************************************************************************)
(* Specification                                                           *)
(***************************************************************************)
Commit(S) ==
  /\ Len(S.selections) <= MaxOverlay
  /\ meta' = S.meta
  /\ selections' = S.selections
  /\ decor' = S.decor
  /\ td' = S.td
  /\ trace' = S.trace
  /\ savedSettings' = S.savedSettings

Tick(limit) ==
  /\ steps < limit
  /\ steps' = steps + 1

Init ==
  /\ customBorders \in SettingValues
  /\ savedSettings = Undefined
  /\ enabled = FALSE
  /\ hooks = 0
  /\ meta = << >>
  /\ selections = << >>
  /\ decor = {}
  /\ td = {}
  /\ trace = << >>
  /\ lastOp = [name |-> "constructor"]
  /\ steps = 0
  /\ language = HostAtStart.language
  /\ errors = HostAtStart.errors
  /\ hookLog = HostAtStart.hookLog
  /\ menu = << >>

\* the host replaces the live `customBorders` setting
ChangeSetting(v, limit) ==
  /\ Tick(limit)
  /\ v # customBorders
  /\ customBorders' = v
  /\ lastOp' = [name |-> "changeSetting"]
  /\ trace' = << >>
  /\ UNCHANGED <<savedSettings, enabled, hooks, meta, selections, decor, td>>
  /\ UNCHANGED hostVars

\* enablePlugin without the `if (this.enabled) return` guard
EnablePluginUnguarded(limit) ==
  /\ Tick(limit)
  /\ lastOp' = [name |-> "enablePlugin"]
  /\ trace' = << >>
  /\ enabled' = TRUE
  /\ hooks' = hooks + 1
  /\ UNCHANGED <<customBorders, savedSettings, meta, selections, decor, td>>
  /\ UNCHANGED hostVars

EnablePlugin(limit) ==
  /\ Tick(limit)
  /\ lastOp' = [name |-> "enablePlugin"]
  /\ trace' = << >>
  /\ IF enabled
       THEN UNCHANGED <<enabled, hooks>>
       ELSE enabled' = TRUE /\ hooks' = hooks + 1
  /\ UNCHANGED <<customBorders, savedSettings, meta, selections, decor, td>>
  /\ UNCHANGED hostVars

\* disablePlugin(): one settings application, then the base class detaches
\* the hooks
DisablePlugin(limit) ==
  /\ Tick(limit)
  /\ lastOp' = [name |-> "disablePlugin"]
  /\ Commit(setsBordersSettings(Here, customBorders))
  /\ enabled' = FALSE
  /\ hooks' = 0
  /\ UNCHANGED customBorders
  /\ UNCHANGED hostVars

\* updatePlugin(): disablePlugin(), enablePlugin(), one more settings
\* application
UpdatePlugin(limit) ==
  /\ Tick(limit)
  /\ lastOp' = [name |-> "updatePlugin"]
  /\ Commit(setsBordersSettings(setsBordersSettings(Here, customBorders),
                                customBorders))
  /\ enabled' = TRUE
  /\ hooks' = 1
  /\ UNCHANGED customBorders
  /\ UNCHANGED hostVars

\* the `afterInit` hook runs the callback the plugin registered
OnAfterInit(limit) ==
  /\ Tick(limit)
  /\ hooks > 0
  /\ lastOp' = [name |-> "onAfterInit"]
  /\ Commit(setsBordersSettings(Here, customBorders))
  /\ UNCHANGED <<customBorders, enabled, hooks>>
  /\ UNCHANGED hostVars

\* a context-menu action (or a direct call) over the selected range
PrepareBorder(range, place, remove, limit) ==
  /\ Tick(limit)
  /\ lastOp' = [name |-> "prepareBorder", range |-> range, place |-> place,
                remove |-> remove]
  /\ Commit(prepareBorder(Here, range, place, remove))
  /\ UNCHANGED <<customBorders, enabled, hooks>>
  /\ UNCHANGED hostVars

Next ==
  \/ \E v \in SettingValues : ChangeSetting(v, MaxSteps)
  \/ \E range \in ActionRanges, place \in Places, remove \in BOOLEAN :
       PrepareBorder(range, place, remove, MaxSteps)
  \/ EnablePlugin(MaxSteps)
  \/ DisablePlugin(MaxSteps)
  \/ UpdatePlugin(MaxSteps)
  \/ OnAfterInit(MaxSteps)

Spec == Init /\ [][Next]_vars

\* longer behaviours of the plugin lifecycle with few menu actions
NextLife ==
  \/ \E v \in SettingValues : ChangeSetting(v, MaxLifeSteps)
  \/ \E place \in {"top", "left", "noBorders"}, remove \in BOOLEAN :
       PrepareBorder(RangeOf(1, 1, 1, 1), place, remove, MaxLifeSteps)
  \/ EnablePlugin(MaxLifeSteps)
  \/ DisablePlugin(MaxLifeSteps)
  \/ UpdatePlugin(MaxLifeSteps)
  \/ OnAfterInit(MaxLifeSteps)

SpecLife == Init /\ [][NextLife]_vars

\* the grid is constructed with a `language` key (or none) and with the
\* plugin setting absent or `true`
InitLang ==
  /\ customBorders \in {Undefined, Sentinel}
  /\ savedSettings = Undefined
  /\ enabled = FALSE
  /\ hooks = 0
  /\ meta = << >>
  /\ selections = << >>
  /\ decor = {}
  /\ td = {}
  /\ trace = << >>
  /\ steps = 0
  /\ menu = << >>
  /\ \E given \in GivenLanguages :
       LET H == IF given = << >> THEN HostAtStart
                ELSE setLanguage(HostAtStart, given[1], TRUE)
       IN  /\ language = H.language
           /\ errors = H.errors
           /\ hookLog = H.hookLog
           /\ lastOp = [name |-> "constructor", given |-> given]

\* updateSettings({language: ...}) or updateSettings of another key
UpdateSettingsLanguage(given, limit) ==
  /\ Tick(limit)
  /\ lastOp' = [name |-> "updateSettings", given |-> given, before |-> language,
                errorsBefore |-> errors, hookCallsBefore |-> Len(hookLog)]
  /\ LET H == IF given = << >>
                THEN [language |-> language, errors |-> errors, hookLog |-> hookLog]
                ELSE setLanguage([language |-> language, errors |-> errors,
                                  hookLog |-> hookLog], given[1], FALSE)
     IN  /\ language' = H.language
         /\ errors' = H.errors
         /\ hookLog' = H.hookLog
  /\ trace' = << >>
  /\ UNCHANGED <<customBorders, savedSettings, enabled, hooks, meta, selections,
                 decor, td, menu>>

\* the context menu is built: the `afterContextMenuDefaultOptions` hook runs
\* the callbacks the plugin registered
ContextMenu(limit) ==
  /\ Tick(limit)
  /\ lastOp' = [name |-> "contextMenu"]
  /\ menu' = RunMenuHooks(<< >>, customBorders, hooks)
  /\ trace' = << >>
  /\ UNCHANGED <<customBorders, savedSettings, enabled, hooks, meta, selections,
                 decor, td, language, errors, hookLog>>

\* the language setting, the plugin lifecycle and the context menu
NextLang ==
  \/ \E given \in GivenLanguages : UpdateSettingsLanguage(given, MaxLangSteps)
  \/ \E v \in {Undefined, Sentinel} : ChangeSetting(v, MaxLangSteps)
  \/ ContextMenu(MaxLangSteps)
  \/ EnablePlugin(MaxLangSteps)
  \/ DisablePlugin(MaxLangSteps)
  \/ UpdatePlugin(MaxLangSteps)
  \/ OnAfterInit(MaxLangSteps)

SpecLang == InitLang /\ [][NextLang]_vars

(***************************************************************************)
(* Menu actions and direct calls of setBorder on a grid whose cell meta    *)
(* can also be written by code outside the plugin                          *)
(***************************************************************************)
\* a `borders` object stored by other code: it has no `border` field
MalformedBorders(row, col) ==
  [row |-> row, col |-> col, className |-> createClassName(row, col),
   top |-> Red2]

\* what setBorder finds stored for the cell
HeldAt(m, cell) ==
  IF cell \notin DOMAIN m THEN "absent"
  ELSE IF ~hasOwnProperty(m[cell], "border") THEN "malformed"
  ELSE "wellformed"

\* a place value that names no side and is not noBorders
UnknownPlace == "diagonal"

MenuRanges == {RangeOf(1, 1, 1, 1), RangeOf(0, 0, 1, 1)}

\* hot.setCellMeta(row, col, 'borders', value) called by other code
SetCellMetaOutside(row, col, limit) ==
  /\ Tick(limit)
  /\ lastOp' = [name |-> "setCellMeta", row |-> row, col |-> col]
  /\ Commit(setCellMeta(Here, <<row, col>>, MalformedBorders(row, col)))
  /\ UNCHANGED <<customBorders, enabled, hooks>>
  /\ UNCHANGED hostVars

\* plugin.setBorder(row, col, place, remove)
SetBorder(row, col, place, remove, limit) ==
  /\ Tick(limit)
  /\ lastOp' = [name |-> "setBorder", row |-> row, col |-> col,
                place |-> place, remove |-> remove,
                held |-> HeldAt(meta, <<row, col>>)]
  /\ Commit(setBorder(Here, row, col, place, remove))
  /\ UNCHANGED <<customBorders, enabled, hooks>>
  /\ UNCHANGED hostVars

NextMenu ==
  \/ SetCellMetaOutside(1, 1, MaxMenuSteps)
  \/ \E place \in Sides, remove \in BOOLEAN :
       SetBorder(1, 1, place, remove, MaxMenuSteps)
  \/ \E range \in MenuRanges, place \in {"top", "noBorders", UnknownPlace},
        remove \in BOOLEAN :
       PrepareBorder(range, place, remove, MaxMenuSteps)

SpecMenu == Init /\ [][NextMenu]_vars

(***************************************************************************)
(* Vocabulary of the properties                                            *)
(***************************************************************************)
\* the operations that run one or more settings applications
ApplyOps == {"disablePlugin", "updatePlugin", "onAfterInit"}

Hidden == createSingleEmptyBorder

RangeCellSet(range) ==
  {cell \in Cells : /\ range.from.row <= cell[1] /\ cell[1] <= range.to.row
                    /\ range.from.col <= cell[2] /\ cell[2] <= range.to.col}

\* the cell lies on the boundary line of the range that the side names
OnSide(range, side, cell) ==
  CASE side = "top" -> cell[1] = range.from.row
    [] side = "bottom" -> cell[1] = range.to.row
    [] side = "left" -> cell[2] = range.from.col
    [] side = "right" -> cell[2] = range.to.col

\* the cells the operation wrote a descriptor for
Writes(tr) == {tr[i].cell : i \in {j \in 1 .. Len(tr) : tr[j].ev = "setCellMeta"}}

\* number of overlay entries registered under a class name
ClassCount(sels, className) ==
  Cardinality({i \in 1 .. Len(sels) : sels[i].settings.className = className})

\* the border metadata of the cell is the same before and after the step
SameMeta(cell) ==
  /\ (cell \in DOMAIN meta') <=> (cell \in DOMAIN meta)
  /\ cell \in DOMAIN meta => meta'[cell] = meta[cell]

\* the step applies a list made of exactly one entry
AppliesSingle ==
  /\ lastOp'.name \in ApplyOps
  /\ customBorders'.kind = "list"
  /\ Len(customBorders'.list) = 1

NamedSides(entry) == Sides \cap DOMAIN entry

(***************************************************************************)
(* C1: applying a range entry that names a single side (range with r1 > r0 *)
(* and c1 > c0) writes a descriptor to exactly the cells of that side's    *)
(* edge, each gaining that side and no other; every other cell of the      *)
(* range keeps its metadata and gets no descriptor.  Stated as the claim   *)
(* words it; the code writes every boundary cell of the range.             *)
(***************************************************************************)
C1_OnlyNamedEdgeWritten ==
  [][ (/\ AppliesSingle
       /\ hasOwnProperty(customBorders'.list[1], "range")
       /\ Cardinality(NamedSides(customBorders'.list[1])) = 1)
      => LET entry == customBorders'.list[1]
             side == CHOOSE x \in NamedSides(entry) : TRUE
         IN  \A cell \in RangeCellSet(entry.range) :
               IF OnSide(entry.range, side, cell)
                 THEN /\ cell \in Writes(trace')
                      /\ cell \in DOMAIN meta'
                      /\ meta'[cell][side] = entry[side]
                      /\ \A other \in Sides \ {side} :
                           \/ meta'[cell][other] = Hidden
                           \/ /\ cell \in DOMAIN meta
                              /\ meta'[cell][other] = meta[cell][other]
                 ELSE /\ cell \notin Writes(trace')
                      /\ SameMeta(cell) ]_vars

(***************************************************************************)
(* C2: for a range entry a named side is put only on the cells of that     *)
(* side's boundary, a corner cell receives both of its named sides in one  *)
(* descriptor, and a cell strictly inside the rectangle gets no descriptor *)
(* written and no overlay registered.                                      *)
(***************************************************************************)
C2_RangeEdgePolicy ==
  [][ (AppliesSingle /\ hasOwnProperty(customBorders'.list[1], "range"))
      => LET entry == customBorders'.list[1]
         IN  \A cell \in RangeCellSet(entry.range) :
               IF \E side \in Sides : OnSide(entry.range, side, cell)
                 THEN /\ cell \in DOMAIN meta'
                      /\ \A side \in Sides :
                           IF side \in NamedSides(entry) /\ OnSide(entry.range, side, cell)
                             THEN meta'[cell][side] = entry[side]
                             ELSE \/ meta'[cell][side] = Hidden
                                  \/ /\ cell \in DOMAIN meta
                                     /\ meta'[cell][side] = meta[cell][side]
                 ELSE /\ cell \notin Writes(trace')
                      /\ SameMeta(cell)
                      /\ ClassCount(selections', createClassName(cell[1], cell[2]))
                           = ClassCount(selections, createClassName(cell[1], cell[2])) ]_vars

\* the top-and-left entry over rows 0..2 and columns 0..2 has been applied:
\* the corner holds both sides and the inner cell has no descriptor
C2_Witness ==
  /\ lastOp.name \in ApplyOps
  /\ customBorders = ListOf(<<RTopLeft>>)
  /\ <<0, 0>> \in DOMAIN meta
  /\ meta[<<0, 0>>].top = Red2
  /\ meta[<<0, 0>>].left = Green1
  /\ <<0, 2>> \in DOMAIN meta
  /\ meta[<<0, 2>>].left = Hidden
  /\ <<1, 1>> \notin DOMAIN meta

(***************************************************************************)
(* C3: applying a point entry for (r,c) gives a descriptor in which the    *)
(* sides the entry sets carry the given styles and every side it does not  *)
(* mention is unchanged from the descriptor the cell held before.  Stated  *)
(* as the claim words it; the code starts from an empty descriptor.        *)
(***************************************************************************)
C3_PointEntryKeepsOtherSides ==
  [][ (AppliesSingle /\ ~hasOwnProperty(customBorders'.list[1], "range"))
      => LET entry == customBorders'.list[1]
             cell == <<entry.row, entry.col>>
         IN  /\ cell \in DOMAIN meta'
             /\ \A side \in Sides :
                  IF side \in NamedSides(entry)
                    THEN meta'[cell][side] = entry[side]
                    ELSE meta'[cell][side] =
                           IF cell \in DOMAIN meta THEN meta[cell][side] ELSE Hidden ]_vars

(***************************************************************************)
(* C4: after a clear-all (noBorders) action no cell of the acted range,    *)
(* interior cells included, has a `borders` entry in the Metadata Store.   *)
(***************************************************************************)
C4_ClearAllRemovesMeta ==
  (lastOp.name = "prepareBorder" /\ lastOp.place = "noBorders")
    => \A cell \in RangeCellSet(lastOp.range) : cell \notin DOMAIN meta

\* a clear-all over rows 0..2 and columns 0..2 has run after the inner cell
\* (1,1) had been given a descriptor (its overlay entry is still listed)
C4_Witness ==
  /\ lastOp.name = "prepareBorder"
  /\ lastOp.place = "noBorders"
  /\ lastOp.range = RangeOf(0, 0, 2, 2)
  /\ ClassCount(selections, createClassName(1, 1)) > 0
  /\ Event("removeCellMeta", <<1, 1>>) \in {trace[i] : i \in 1 .. Len(trace)}

(***************************************************************************)
(* C5: a clear-all action on an annotated cell destroys the annotation in  *)
(* all three places: no overlay entry with the cell's class name, no       *)
(* metadata entry, no decoration node.  Stated as the claim words it; the  *)
(* code leaves the overlay entry in the list.                              *)
(***************************************************************************)
C5_ClearAllRemovesOverlay ==
  (lastOp.name = "prepareBorder" /\ lastOp.place = "noBorders")
    => \A cell \in RangeCellSet(lastOp.range) :
         /\ ClassCount(selections, createClassName(cell[1], cell[2])) = 0
         /\ cell \notin DOMAIN meta
         /\ createClassName(cell[1], cell[2]) \notin decor

(***************************************************************************)
(* C6: registering a descriptor is an upsert, hence the overlay list holds *)
(* at most one entry per className after any sequence of operations.       *)
(* Stated as the claim words it; getSettingIndex never finds an entry, so  *)
(* every registration appends.                                             *)
(***************************************************************************)
C6_OneEntryPerClassName ==
  \A i, j \in 1 .. Len(selections) :
    i # j => selections[i].settings.className # selections[j].settings.className

(***************************************************************************)
(* C7: two setBorder calls on one cell with two different sides give the   *)
(* same final descriptor in either order, with both sides set as their     *)
(* `remove` flags say; two calls on the same side are last-write-wins.     *)
(***************************************************************************)
StyleFor(remove) ==
  IF remove THEN [hide |-> TRUE] ELSE [width |-> 1, color |-> "#000"]

\* the Metadata Store after setBorder on the cell
MetaAfterSetBorder(m, cell, place, remove) ==
  (cell :> setBorderMeta(m, cell[1], cell[2], place, remove)) @@ m

SidePairs ==
  { <<"top", "right">>, <<"top", "bottom">>, <<"top", "left">>,
    <<"right", "bottom">>, <<"right", "left">>, <<"bottom", "left">> }

C7_SetBorderCommutes ==
  \A cell \in {<<0, 0>>, <<1, 1>>} :
    \A rp, rq \in BOOLEAN :
      /\ \A pair \in SidePairs :
           \A pq \in {MetaAfterSetBorder(
                        MetaAfterSetBorder(meta, cell, pair[1], rp),
                        cell, pair[2], rq)[cell]} :
             \A qp \in {MetaAfterSetBorder(
                          MetaAfterSetBorder(meta, cell, pair[2], rq),
                          cell, pair[1], rp)[cell]} :
               /\ pq = qp
               /\ pq[pair[1]] = StyleFor(rp)
               /\ pq[pair[2]] = StyleFor(rq)
      /\ \A p \in Sides :
           MetaAfterSetBorder(MetaAfterSetBorder(meta, cell, p, rp),
                              cell, p, rq)[cell][p] = StyleFor(rq)

\* cell (1,1) has been given its top side and then its left side by two
\* single-cell setBorder calls
C7_Witness ==
  /\ lastOp.name = "prepareBorder"
  /\ lastOp.range = RangeOf(1, 1, 1, 1)
  /\ lastOp.place = "left"
  /\ ~lastOp.remove
  /\ <<1, 1>> \in DOMAIN meta
  /\ meta[<<1, 1>>].top = createDefaultCustomBorder
  /\ meta[<<1, 1>>].left = createDefaultCustomBorder
  /\ ClassCount(selections, createClassName(1, 1)) >= 2

(***************************************************************************)
(* What a list prescribes.  No list of ConfigLists has two entries that    *)
(* name a side of the same cell, so the prescription does not depend on    *)
(* how overlapping entries combine.                                        *)
(***************************************************************************)
\* the entry names the side for the cell
Names(entry, cell, side) ==
  /\ side \in NamedSides(entry)
  /\ IF hasOwnProperty(entry, "range")
       THEN cell \in RangeCellSet(entry.range) /\ OnSide(entry.range, side, cell)
       ELSE cell = <<entry.row, entry.col>>

Annotated(list) ==
  {cell \in Cells : \E i \in 1 .. Len(list), side \in Sides : Names(list[i], cell, side)}

PrescribedSide(list, cell, side) ==
  IF \E i \in 1 .. Len(list) : Names(list[i], cell, side)
    THEN list[CHOOSE i \in 1 .. Len(list) :
                /\ Names(list[i], cell, side)
                /\ \A j \in 1 .. Len(list) : Names(list[j], cell, side) => j <= i][side]
    ELSE Hidden

Prescribes(list, m) ==
  \A cell \in Annotated(list) :
    /\ cell \in DOMAIN m
    /\ \A side \in Sides : m[cell][side] = PrescribedSide(list, cell, side)

IsWrite(event) == event.ev \in {"setCellMeta", "removeCellMeta"}

C9_RedrawOnceAfterWrites ==
  (\/ lastOp.name \in {"disablePlugin", "onAfterInit"} /\ Truthy(customBorders)
   \/ /\ lastOp.name = "prepareBorder"
      /\ Cardinality(RangeCellSet(lastOp.range)) > 1)
    => /\ Cardinality({i \in 1 .. Len(trace) : trace[i].ev = "render"}) = 1
       /\ \A i, j \in 1 .. Len(trace) :
            (trace[i].ev = "render" /\ IsWrite(trace[j])) => j < i

(***************************************************************************)
(* C10: after updatePlugin with a list that differs from the one applied   *)
(* before, every cell the new list annotates holds the descriptor the new  *)
(* list prescribes, and a cell only the previous list annotated holds no   *)
(* descriptor and no overlay entry.  Stated as the claim words it; nothing *)
(* in the update removes what the previous list wrote.                     *)
(***************************************************************************)
C10_UpdateRematerializes ==
  [][ (/\ lastOp'.name = "updatePlugin"
       /\ customBorders'.kind = "list"
       /\ savedSettings.kind = "list"
       /\ savedSettings # customBorders')
      => /\ Prescribes(customBorders'.list, meta')
         /\ \A cell \in Annotated(savedSettings.list) \ Annotated(customBorders'.list) :
              /\ cell \notin DOMAIN meta'
              /\ ClassCount(selections', createClassName(cell[1], cell[2])) = 0 ]_vars

(***************************************************************************)
(* C11: applying [{row:1,col:1,left:{width:2,color:'red'}}] once to a grid *)
(* with no border state leaves (1,1) with that left side and the other     *)
(* three sides hidden, exactly one overlay entry, carrying the class name  *)
(* of (1,1), and no descriptor on any other cell.                          *)
(***************************************************************************)
\* the operations that run exactly one settings application
ApplyOnceOps == {"disablePlugin", "onAfterInit"}

C11_SingleEntryScenario ==
  [][ (/\ lastOp'.name \in ApplyOnceOps
       /\ customBorders' = ListOf(<<[row |-> 1, col |-> 1, left |-> Red2]>>)
       /\ meta = << >>
       /\ selections = << >>)
      => /\ DOMAIN meta' = {<<1, 1>>}
         /\ meta'[<<1, 1>>].left = [width |-> 2, color |-> "red"]
         /\ \A side \in {"top", "right", "bottom"} :
              meta'[<<1, 1>>][side] = Hidden
         /\ Len(selections') = 1
         /\ selections'[1].settings.className = createClassName(1, 1)
         /\ selections'[1].settings.left = [width |-> 2, color |-> "red"] ]_vars

\* the list has been applied once to the untouched grid
C11_Witness ==
  /\ lastOp.name \in ApplyOnceOps
  /\ steps <= 2
  /\ customBorders = ListOf(<<PLeft11>>)
  /\ DOMAIN meta = {<<1, 1>>}
  /\ meta[<<1, 1>>].left = Red2
  /\ Len(selections) = 1

(***************************************************************************)
(* C12: the `borders` context-menu entry the plugin appends is labelled in *)
(* the grid's current language, and the entry with its five sub-items is   *)
(* appended only when the `customBorders` setting is truthy.  Stated as    *)
(* the claim words it; the code pushes the fixed name 'Borders'.           *)
(***************************************************************************)
\* the phrase of the `borders` menu item in the dictionary of a language
BordersPhrase(code) ==
  IF code = POLISH_LANGUAGE_CODE THEN "Obramowanie" ELSE "Borders"

IsBordersItem(item) == hasOwnProperty(item, "key") /\ item.key = "borders"

C12_BordersItemTranslated ==
  lastOp.name = "contextMenu"
    => /\ \A i \in 1 .. Len(menu) :
            IsBordersItem(menu[i])
              => /\ menu[i].name = BordersPhrase(language)
                 /\ menu[i].submenu = <<"top", "right", "bottom", "left", "noBorders">>
       /\ (\E i \in 1 .. Len(menu) : IsBordersItem(menu[i])) => Truthy(customBorders)

(***************************************************************************)
(* C13: the `language` setting is always a registered code: en-US when no  *)
(* code or an unregistered one was given at start; updateSettings with an  *)
(* unregistered code or without the key leaves it unchanged; a registered  *)
(* code given in lower case is stored normalized; an error is logged       *)
(* exactly for the attempts that name an unregistered code.                *)
(***************************************************************************)
\* the registered codes that the given code spells, whatever its letter case
RegisteredForms(given) ==
  IF given = << >> THEN {}
  ELSE {r \in RegisteredLanguages :
          /\ r.lang = given[1].lang
          /\ toLowerCase(r.region) = toLowerCase(given[1].region)}

NamesUnregistered(given) == given # << >> /\ RegisteredForms(given) = {}

C13_LanguageAlwaysRegistered ==
  /\ language \in RegisteredLanguages
  /\ (lastOp.name = "constructor" /\ hasOwnProperty(lastOp, "given"))
       => /\ IF RegisteredForms(lastOp.given) # {}
               THEN language \in RegisteredForms(lastOp.given)
               ELSE language = DEFAULT_LANGUAGE_CODE
          /\ errors = IF NamesUnregistered(lastOp.given) THEN 1 ELSE 0
  /\ lastOp.name = "updateSettings"
       => /\ IF RegisteredForms(lastOp.given) # {}
               THEN language \in RegisteredForms(lastOp.given)
               ELSE language = lastOp.before
          /\ errors = lastOp.errorsBefore
                        + (IF NamesUnregistered(lastOp.given) THEN 1 ELSE 0)

\* after one logged attempt, updateSettings({language: 'pl-pl'}) has stored
\* pl-PL
C13_Witness ==
  /\ lastOp.name = "updateSettings"
  /\ lastOp.given = <<LanguageCode("pl", "pl")>>
  /\ lastOp.before = DEFAULT_LANGUAGE_CODE
  /\ language = POLISH_LANGUAGE_CODE
  /\ errors = 1

(***************************************************************************)
(* C14: the `afterLanguageChange` hook is never fired while the grid is    *)
(* initialized, and when updateSettings changes the language the hook      *)
(* fires before the setting is updated, so it observes the previous        *)
(* language.                                                               *)
(***************************************************************************)
C14_HookSeesPreviousLanguage ==
  /\ lastOp.name = "constructor" => hookLog = << >>
  /\ (lastOp.name = "updateSettings" /\ language # lastOp.before)
       => /\ Len(hookLog) = lastOp.hookCallsBefore + 1
          /\ hookLog[Len(hookLog)] = lastOp.before

\* the grid was started with pl-PL and updateSettings then moved it to en-US:
\* the hook ran once and saw pl-PL
C14_Witness ==
  /\ lastOp.name = "updateSettings"
  /\ lastOp.before = POLISH_LANGUAGE_CODE
  /\ language = DEFAULT_LANGUAGE_CODE
  /\ hookLog = <<POLISH_LANGUAGE_CODE>>

(***************************************************************************)
(* C15: in every reachable state a cell holds at most one descriptor (meta *)
(* is a map from cells), the descriptor stored at (r,c) carries row = r,   *)
(* col = c and className = createClassName(r,c), and every overlay entry   *)
(* covers exactly the single cell its descriptor names.                    *)
(***************************************************************************)
KeyedBy(border, row, col) ==
  /\ border.row = row
  /\ border.col = col
  /\ border.className = createClassName(row, col)

CoversOwnCell(selection) ==
  LET own == [row |-> selection.settings.row, col |-> selection.settings.col]
  IN  /\ selection.cellRange.from = own
      /\ selection.cellRange.to = own
      /\ selection.cellRange.highlight = own
      /\ KeyedBy(selection.settings, own.row, own.col)

C15_DescriptorsKeyedByCell ==
  /\ \A cell \in DOMAIN meta : KeyedBy(meta[cell], cell[1], cell[2])
  /\ \A i \in 1 .. Len(selections) : CoversOwnCell(selections[i])

\* an off-diagonal cell holds a descriptor and has an overlay entry
C15_Witness ==
  /\ <<0, 1>> \in DOMAIN meta
  /\ \E i \in 1 .. Len(selections) :
        /\ selections[i].settings.row = 0
        /\ selections[i].settings.col = 1
  /\ lastOp.name \in ApplyOps

(***************************************************************************)
(* C16: over a multi-cell range the `remove` flag reaches setBorder only   *)
(* for `top`: a `top` action with remove = true hides the top side of the  *)
(* boundary cells, while a `left`, `right` or `bottom` action with         *)
(* remove = true sets that side to the default visible style; over a       *)
(* single-cell range `remove` is honoured for all four sides.              *)
(***************************************************************************)
IsSingleCell(range) ==
  range.from.row = range.to.row /\ range.from.col = range.to.col

C17_UnknownPlaceIsNoOp ==
  [][ (lastOp'.name = "prepareBorder" /\ lastOp'.place \notin Places)
        => /\ meta' = meta
           /\ selections' = selections
           /\ decor' = decor
           /\ td' = td
           /\ \A i \in 1 .. Len(trace') : trace'[i].ev \notin {"render", "draw"}
    ]_vars

(***************************************************************************)
(* C18: setBorder(row, col, place, remove) on a cell whose `borders` meta  *)
(* is absent or malformed (no `border` field) starts from a fresh empty    *)
(* descriptor: the stored result has the targeted side set to the default  *)
(* visible style (remove false) or the hidden style (remove true) and the  *)
(* other three sides hidden; on a cell with a well-formed descriptor only  *)
(* the targeted side changes.                                              *)
(***************************************************************************)
C18_SetBorderStartsFresh ==
  [][ lastOp'.name = "setBorder"
        => LET cell == <<lastOp'.row, lastOp'.col>>
               place == lastOp'.place
           IN  /\ cell \in DOMAIN meta'
               /\ meta'[cell][place] = StyleFor(lastOp'.remove)
               /\ IF HeldAt(meta, cell) \in {"absent", "malformed"}
                    THEN /\ DOMAIN meta'[cell] = DOMAIN createEmptyBorders(cell[1], cell[2])
                         /\ KeyedBy(meta'[cell], cell[1], cell[2])
                         /\ meta'[cell].border = createDefaultHtBorder
                         /\ \A side \in Sides \ {place} : meta'[cell][side] = Hidden
                    ELSE /\ DOMAIN meta'[cell] = DOMAIN meta[cell]
                         /\ \A f \in (DOMAIN meta[cell]) \ {place} :
                              meta'[cell][f] = meta[cell][f]
    ]_vars

\* setBorder(1, 1, 'left', false) met the malformed object, whose top side
\* was red: the stored descriptor has the default left side and a hidden top
C18_Witness ==
  /\ lastOp.name = "setBorder"
  /\ lastOp.held = "malformed"
  /\ lastOp.place = "left"
  /\ ~lastOp.remove
  /\ meta[<<1, 1>>].left = StyleFor(FALSE)
  /\ meta[<<1, 1>>].top = Hidden

\* setBorder on a well-formed descriptor that has a visible side already
C18_WitnessKept ==
  /\ lastOp.name = "setBorder"
  /\ lastOp.held = "wellformed"
  /\ lastOp.place = "left"
  /\ meta[<<1, 1>>].left = StyleFor(FALSE)
  /\ meta[<<1, 1>>].top = StyleFor(FALSE)

(***************************************************************************)
(* C19: a side action (top, bottom, left, right) over a multi-cell range   *)
(* changes only the cells on the matching boundary line of the range,      *)
(* across its full extent; the border metadata and the overlay entries of  *)
(* every other cell, inside or outside the range, are unchanged.           *)
(***************************************************************************)
\* the overlay entries registered for the cell, in registration order
EntriesOf(sels, cell) ==
  SelectSeq(sels, LAMBDA entry : CellOf(entry.settings) = cell)

OnBoundaryLine(range, side, cell) ==
  cell \in RangeCellSet(range) /\ OnSide(range, side, cell)

C19_SideActionFrame ==
  [][ (/\ lastOp'.name = "prepareBorder"
       /\ lastOp'.place \in Sides
       /\ ~IsSingleCell(lastOp'.range))
        => \A cell \in Cells :
             IF OnBoundaryLine(lastOp'.range, lastOp'.place, cell)
               THEN cell \in Writes(trace')
               ELSE /\ SameMeta(cell)
                    /\ EntriesOf(selections', cell) = EntriesOf(selections, cell)
    ]_vars

\* a `bottom` action over the 3x3 range wrote the last row and left the
\* descriptor of the inner cell (1,1), applied from the list before, alone
C19_Witness ==
  /\ lastOp.name = "prepareBorder"
  /\ lastOp.place = "bottom"
  /\ lastOp.range = RangeOf(0, 0, 2, 2)
  /\ \A col \in Cols : <<2, col>> \in DOMAIN meta
                          /\ meta[<<2, col>>].bottom = StyleFor(FALSE)
  /\ <<1, 1>> \in DOMAIN meta
  /\ meta[<<1, 1>>].left = Red2
  /\ meta[<<1, 1>>].bottom = Hidden

(***************************************************************************)
(* C20, as the claim words it: savedSettings equals the most recent        *)
(* non-empty list configuration seen by a settings reconciliation; a       *)
(* reconciliation with an empty list, a non-list sentinel or a falsy value *)
(* does not replace it.  The code saves an empty list too.                 *)
(***************************************************************************)
C20_SavedIsLastNonEmptyList ==
  [][ savedSettings' =
        IF /\ lastOp'.name \in ApplyOps
           /\ customBorders.kind = "list"
           /\ customBorders.list # << >>
          THEN customBorders
          ELSE savedSettings ]_vars

(***************************************************************************)
(* C20, amended: savedSettings equals the most recent list configuration,  *)
(* empty or not, seen by a settings application (disable, update,          *)
(* afterInit); an application with a non-list sentinel or a falsy value    *)
(* does not replace it, enablePlugin and the menu actions leave it alone,  *)
(* and so it survives disable/enable cycles.                               *)
(***************************************************************************)
C20_SavedIsLastList ==
  [][ savedSettings' =
        IF lastOp'.name \in ApplyOps /\ customBorders.kind = "list"
          THEN customBorders
          ELSE savedSettings ]_vars

\* a list was applied and saved, the setting then became the sentinel and
\* was applied by disablePlugin: the saved list is still there
C20_Witness ==
  /\ lastOp.name = "disablePlugin"
  /\ customBorders = Sentinel
  /\ savedSettings = ListOf(<<PLeft11>>)
  /\ ~enabled

\* an empty list was applied after a non-empty one and took its place
C20_EmptyListSaved ==
  /\ lastOp.name \in ApplyOps
  /\ steps >= 3
  /\ customBorders = ListOf(<< >>)
  /\ savedSettings = ListOf(<< >>)
  /\ selections # << >>

(***************************************************************************)
(* C21: a settings application with a truthy non-list `customBorders`      *)
(* value (`true`) and no remembered list writes no border descriptor to    *)
(* any cell, registers no overlay entry, and leaves savedSettings unset.   *)
(***************************************************************************)
C21_SentinelWithoutSavedList ==
  [][ (/\ lastOp'.name \in ApplyOps
       /\ customBorders = Sentinel
       /\ ~Truthy(savedSettings))
        => /\ meta' = meta
           /\ selections' = selections
           /\ \A i \in 1 .. Len(trace') : ~IsWrite(trace'[i])
           /\ savedSettings' = Undefined ]_vars

\* the sentinel was applied to a grid that holds a border set from the menu
\* and no list was ever saved: the border and its overlay are what they were
C21_Witness ==
  /\ lastOp.name \in ApplyOps
  /\ customBorders = Sentinel
  /\ savedSettings = Undefined
  /\ DOMAIN meta = {<<1, 1>>}
  /\ meta[<<1, 1>>].top = StyleFor(FALSE)
  /\ Len(selections) = 1
  /\ \E i \in 1 .. Len(trace) : trace[i].ev = "render"

(***************************************************************************)
(* C22: purging the border visuals of a class name never removes a table   *)
(* cell (TD) tagged with the class and detaches every decoration node      *)
(* tagged with it; setBorder and removeAllBorders purge the class of their *)
(* cell before anything is drawn again, so no decoration node rendered     *)
(* before the call remains attached.                                       *)
(***************************************************************************)
ClassOf(cell) == createClassName(cell[1], cell[2])

\* the purge, applied in the current state to the class of any cell
PurgeDetachesDecorOnly ==
  \A cell \in Cells :
    \A P \in {removeBordersFromDom(Here, ClassOf(cell))} :
      /\ P.td = td
      /\ ClassOf(cell) \notin P.decor

\* in the calls of one operation every write of a cell's descriptor is
\* followed by the purge of the cell's class and then by the redraw, and
\* every removal of a descriptor comes right after the purge
PurgedBeforeRedraw(tr) ==
  \A i \in 1 .. Len(tr) :
    /\ tr[i].ev = "setCellMeta"
         => /\ i + 2 <= Len(tr)
            /\ tr[i + 1] = Event("removeBordersFromDom", ClassOf(tr[i].cell))
            /\ tr[i + 2].ev = "render"
    /\ tr[i].ev = "removeCellMeta"
         => /\ i > 1
            /\ tr[i - 1] = Event("removeBordersFromDom", ClassOf(tr[i].cell))

C22_PurgeSparesTableCells ==
  [][ /\ PurgeDetachesDecorOnly
      /\ lastOp'.name \in {"setBorder", "prepareBorder"}
           => /\ td \subseteq td'
              /\ PurgedBeforeRedraw(trace')
              /\ (lastOp'.name = "prepareBorder" /\ lastOp'.place = "noBorders")
                   => \A cell \in RangeCellSet(lastOp'.range) :
                        ClassOf(cell) \notin decor'
    ]_vars

\* the border of (1,1) was drawn and then removed by `noBorders`: the
\* decoration is gone and the table cell is still there
C22_Witness ==
  /\ lastOp.name = "prepareBorder"
  /\ lastOp.place = "noBorders"
  /\ lastOp.range = RangeOf(1, 1, 1, 1)
  /\ ClassOf(<<1, 1>>) \in td
  /\ ClassOf(<<1, 1>>) \notin decor
  /\ trace = << Event("removeBordersFromDom", ClassOf(<<1, 1>>)),
                Event("removeCellMeta", <<1, 1>>) >>

(***************************************************************************)
(* C23: enablePlugin is idempotent: called while the plugin is enabled it  *)
(* registers no further hook, so after any sequence of enable, disable and *)
(* update calls each of the two hooks is attached at most once and one     *)
(* context-menu build appends the border entries at most once.             *)
(***************************************************************************)
BordersItems(items) == {i \in 1 .. Len(items) : IsBordersItem(items[i])}

C23_EnablePluginIdempotent ==
  [][ /\ (lastOp'.name = "enablePlugin" /\ enabled)
           => enabled' /\ hooks' = hooks
      /\ hooks' \in {0, 1}
      /\ enabled' => hooks' = 1
      /\ Cardinality(BordersItems(menu')) <= 1
      /\ Len(menu') <= 2 ]_vars

\* enablePlugin, one build of the context menu, enablePlugin again: the hooks
\* are attached once and the menu that was built has one borders entry
C23_Witness ==
  /\ lastOp.name = "enablePlugin"
  /\ steps = 3
  /\ enabled
  /\ hooks = 1
  /\ Cardinality(BordersItems(menu)) = 1

\* after the second enablePlugin the menu is built again: still one entry
C23_WitnessMenu ==
  /\ lastOp.name = "contextMenu"
  /\ steps = 4
  /\ Truthy(customBorders)
  /\ enabled
  /\ Len(menu) = 2
  /\ Cardinality(BordersItems(menu)) = 1

====
